---- MODULE Spec2Model ----
(***************************************************************************)
(* A model of gamejolt.py: the GameJoltAPI client.  An endpoint builder    *)
(* assembles a parameter dict, _submit url-encodes and signs it (through   *)
(* the lru_cache around _encode_signed_url) and hands _get_response to a   *)
(* one-worker ProcessPoolExecutor, whose Future is returned to the caller. *)
(*                                                                         *)
(* Text.  A Python str is a sequence of tokens.  A token is a TLA+ string  *)
(* standing for a run of characters, or for one character that the code    *)
(* treats specially: a non-ASCII character (named by its code point,       *)
(* "U+00EB") or a space.  Every url is built by the same constructors, so  *)
(* equal Python strings are equal token sequences.                         *)
(***************************************************************************)
EXTENDS Integers, Sequences, FiniteSets, TLC

(***************************************************************************)
(* Bounds of the model.                                                    *)
(***************************************************************************)
\* Futures one run of Spec creates (calls that reach executor.submit).
MaxCalls == 2
\* Futures one run of ApiSpec creates.
MaxApiCalls == 1
\* functools.lru_cache() keeps maxsize=128 entries; the model keeps this many.
lru_maxsize == 1

(***************************************************************************)
(* Python values: None, str and int, with str(), truthiness and `or`.      *)
(***************************************************************************)
None == [t |-> "NoneType"]

PyStr(tokens) == [t |-> "str", s |-> tokens]

PyInt(n) == [t |-> "int", n |-> n]

PyDict(d) == [t |-> "dict", d |-> d]

PyList(l) == [t |-> "list", l |-> l]

\* bool(v): None, "" and 0 are false.
py_bool(v) ==
    CASE v.t = "NoneType" -> FALSE
      [] v.t = "str" -> v.s # <<>>
      [] v.t = "int" -> v.n # 0

\* str(v), as text.
py_str(v) ==
    CASE v.t = "NoneType" -> <<"None">>
      [] v.t = "str" -> v.s
      [] v.t = "int" -> <<ToString(v.n)>>

\* a or b
py_or(a, b) == IF py_bool(a) THEN a ELSE b

(***************************************************************************)
(* Text: the characters bytearray(..., encoding='ascii') refuses, and      *)
(* urllib.parse.quote_plus.                                                *)
(***************************************************************************)
NonAscii == {"U+00E9", "U+00EB"}

\* An encoding that never fails (errors='ignore').
ascii_encodable_ignoring_errors(text) == TRUE

\* Whether bytearray(text, encoding='ascii') succeeds (else UnicodeEncodeError).
ascii_encodable(text) == \A i \in 1..Len(text) : text[i] \notin NonAscii

RECURSIVE Flatten(_)
\* The characters of a text as one run.
Flatten(text) ==
    IF text = <<>> THEN "" ELSE Head(text) \o Flatten(Tail(text))

\* quote_plus of one token: a space becomes '+', a non-ASCII character the
\* percent-escapes of its UTF-8 bytes, a run of unreserved characters is kept.
quote_token(tok) ==
    CASE tok = " " -> "+"
      [] tok = "U+00E9" -> "%C3%A9"
      [] tok = "U+00EB" -> "%C3%AB"
      [] OTHER -> tok

\* quote_plus(text): one run of ASCII characters (no token for the empty str).
quote_plus(text) ==
    IF text = <<>> THEN <<>>
    ELSE <<Flatten([i \in 1..Len(text) |-> quote_token(text[i])])>>

(***************************************************************************)
(* dict: an insertion-ordered sequence of <<key, value>> pairs.            *)
(***************************************************************************)
dict_has(d, k) == \E i \in 1..Len(d) : d[i][1] = k

dict_get(d, k) == d[CHOOSE i \in 1..Len(d) : d[i][1] = k][2]

\* d[k] = v: replaces the value of an existing key in place, else appends.
dict_set(d, k, v) ==
    IF dict_has(d, k)
    THEN [i \in 1..Len(d) |-> IF d[i][1] = k THEN <<k, v>> ELSE d[i]]
    ELSE Append(d, <<k, v>>)

RECURSIVE urlencode(_)
\* urllib.parse.urlencode(values): quote_plus(str(k))=quote_plus(str(v)),
\* joined by '&' in the dict's order.
urlencode(values) ==
    IF values = <<>> THEN <<>>
    ELSE LET pair == quote_plus(<<values[1][1]>>) \o <<"=">>
                       \o quote_plus(py_str(values[1][2]))
         IN IF Len(values) = 1 THEN pair
            ELSE pair \o <<"&">> \o urlencode(Tail(values))

(***************************************************************************)
(* Exceptions and returns: what a call hands back.                         *)
(***************************************************************************)
Return(v) == [raised |-> "", value |-> v]

Raise(type, msg) == [raised |-> type, value |-> msg]

(***************************************************************************)
(* The client: GameJoltAPI.__init__ and its fields.                        *)
(***************************************************************************)
VARIABLES
    _game_id,       \* self._game_id
    _private_key,   \* self._private_key, a text
    username,       \* self.username, a Python value
    token,          \* self.token, a Python value
    _values,        \* self._values, the base parameter dict
    cache,          \* the lru_cache of _encode_signed_url, least recent first
    futures,        \* the Futures executor.submit has returned, by work id
    work_queue,     \* the executor's work items not yet taken by a worker
    executing,      \* the work items inside _get_response in a worker process
    called,         \* the builder the caller called last, with its arguments
    raised          \* the exception that call raised to the caller ("" = none)

vars == <<_game_id, _private_key, username, token, _values, cache, futures,
          work_queue, executing, called, raised>>

\* self._base_url
_base_url == "http://api.gamejolt.com/api/game/v1/"

\* A pool with a second worker.
max_workers_two == 1 + 1

\* _Executor(max_workers=1)
max_workers == 1

\* urljoin(base, path) for a base ending in '/' and a relative path.
_urljoin(base, path) == base \o path

(***************************************************************************)
(* The signer: _encode_signed_url under functools.lru_cache.               *)
(***************************************************************************)
\* hashlib.sha1(bytes).hexdigest(): the digest of a byte string, kept
\* symbolic (distinct inputs have distinct digests); a run of hex digits.
sha1_hexdigest(bytes) == "sha1(" \o bytes \o ")"

\* Whether a url has a query string.
has_query(url) == \E i \in 1..Len(url) : url[i] = "?"

\* The separator _encode_signed_url puts before the signature parameter.
signature_separator(url) == "&"

\* The body of _encode_signed_url(self, url).
encode_signed_url_body(private_key, url) ==
    IF ~ascii_encodable(url \o private_key)
    THEN Raise("UnicodeEncodeError", "'ascii' codec can't encode character")
    ELSE LET signature == sha1_hexdigest(Flatten(url \o private_key))
             parameter == urlencode(<<<<"signature", PyStr(<<signature>>)>>>>)
         IN Return(url \o <<signature_separator(url)>> \o parameter)

\* A key that leaves the url out.
cache_key_without_url(self, url) == [self |-> self, url |-> <<>>]

\* A key that leaves the client out (a cache keyed by the url alone).
cache_key_without_self(self, url) == [self |-> "", url |-> url]

\* The key lru_cache makes of the arguments (self, url).
cache_key(self, url) == [self |-> self, url |-> url]

cache_has(c, key) == \E i \in 1..Len(c) : c[i].key = key

cache_index(c, key) == CHOOSE i \in 1..Len(c) : c[i].key = key

\* c without its i-th entry.
cache_remove(c, i) == SubSeq(c, 1, i - 1) \o SubSeq(c, i + 1, Len(c))

\* The cache after a hit on its i-th entry: the entry becomes the most recent.
cache_touch(c, i) == Append(cache_remove(c, i), c[i])

\* A cache that drops nothing (lru_cache(maxsize=None)).
cache_insert_unbounded(c, key, value) ==
    Append(c, [key |-> key, value |-> value])

\* The cache after a miss stored `value`: the least recent entry is dropped
\* once maxsize entries are held.
cache_insert(c, key, value) ==
    LET entry == [key |-> key, value |-> value]
    IN IF Len(c) >= lru_maxsize THEN Append(Tail(c), entry) ELSE Append(c, entry)

\* The value the wrapper returns on a hit.
cache_hit_value(c, key) == c[cache_index(c, key)].value

\* self._encode_signed_url(url) through the lru_cache wrapper, on cache c:
\* the outcome and the cache afterwards.  A call that raises stores nothing.
_encode_signed_url(c, self, private_key, url) ==
    LET key == cache_key(self, url)
    IN IF cache_has(c, key)
       THEN [out |-> Return(cache_hit_value(c, key)),
             cache |-> cache_touch(c, cache_index(c, key))]
       ELSE LET out == encode_signed_url_body(private_key, url)
            IN [out |-> out,
                cache |-> IF out.raised = "" THEN cache_insert(c, key, out.value)
                          ELSE c]

\* The one client object of the model (`self`).
Self == "api"

(***************************************************************************)
(* The dispatcher: _submit and the executor's submit.                      *)
(***************************************************************************)
\* No answer from the network yet.
NoOutcome == [error |-> "no answer yet", body |-> [json |-> FALSE, value |-> None]]

\* A Future as executor.submit returns it.  Two fields are the model's record
\* of its task: gets counts the urlopen calls made for it, outcome is what
\* the network answered.
NewFuture ==
    [state |-> "PENDING", result |-> None, exception |-> "", gets |-> 0,
     outcome |-> NoOutcome]

\* A submit that waits until the worker is idle and nothing is queued.
executor_submit_when_idle(signed_url) ==
    /\ executing = {}
    /\ work_queue = <<>>
    /\ futures' = Append(futures, NewFuture)
    /\ work_queue' = <<[id |-> Len(futures) + 1, signed_url |-> signed_url]>>
    /\ UNCHANGED executing

\* A submit that forgets the work items still waiting.
executor_submit_replacing(signed_url) ==
    /\ futures' = Append(futures, NewFuture)
    /\ work_queue' = <<[id |-> Len(futures) + 1, signed_url |-> signed_url]>>
    /\ UNCHANGED executing

\* self._executor.submit(self._get_response, signed_url): a new Future and a
\* work item at the back of the executor's queue; it waits for nothing.
executor_submit(signed_url) ==
    /\ futures' = Append(futures, NewFuture)
    /\ work_queue' = Append(work_queue,
                            [id |-> Len(futures) + 1, signed_url |-> signed_url])
    /\ UNCHANGED executing

\* "{}?{}".format(endpoint, _urlencode(values))
submit_url(endpoint, values) == <<endpoint, "?">> \o urlencode(values)

\* self._submit(endpoint, values)
_submit(endpoint, values) ==
    LET url == submit_url(endpoint, values)
        signed == _encode_signed_url(cache, Self, _private_key, url)
    IN /\ cache' = signed.cache
       /\ raised' = signed.out.raised
       /\ IF signed.out.raised = ""
          THEN executor_submit(signed.out.value)
          ELSE UNCHANGED <<futures, work_queue, executing>>

\* What no builder assigns.
client_unchanged == UNCHANGED <<_game_id, _private_key, username, token>>

\* A builder that fills self._values itself (values = self._values).
self_values_after_without_copy(values) == values

\* values = self._values.copy(): self._values after the builder has filled
\* `values`.  The keys went into the copy, so self._values keeps its items.
self_values_after(values) == _values

(***************************************************************************)
(* Arguments the caller passes.                                            *)
(***************************************************************************)
GameIds == {PyStr(<<"123">>)}

PrivateKeys == {<<"secret">>, <<"s", "U+00E9", "cret">>}

Usernames == {None, PyStr(<<"Zo", "U+00EB", " ", "B">>)}

Tokens == {None, PyStr(<<"t0k3n">>)}

TrophyIds == {None, PyInt(7)}

TableIds == {None, PyInt(5)}

Limits == {PyInt(10)}

Sorts == {PyInt(100)}

Scores == {None, PyStr(<<"100", " ", "pts">>)}

Keys == {PyStr(<<"k">>)}

Datas == {PyStr(<<"d">>)}

UpdateValues == {PyInt(1)}

\* The operations data_store_update accepts.
Operations == {"add", "subtract", "multiply", "divide", "append", "prepend"}

\* The operations the caller passes: two accepted ones and one that is not.
CalledOperations == {"add", "append", "invalid"}

(***************************************************************************)
(* The endpoint builders.  X_request is the endpoint and the parameter     *)
(* dict builder X assembles from its arguments and the client's fields; X  *)
(* is the call: it hands them to _submit.                                  *)
(***************************************************************************)
Request(endpoint, values) == [endpoint |-> endpoint, values |-> values]

\* The two assignments under `if self.username and self.token`.
with_identity_when_both_set(values) ==
    IF py_bool(username) /\ py_bool(token)
    THEN dict_set(dict_set(values, "username", username), "user_token", token)
    ELSE values

\* values['username'] = self.username; values['user_token'] = self.token
with_identity(values) ==
    dict_set(dict_set(values, "username", username), "user_token", token)

\* The test with `or` for `and`.
has_identity_either == py_bool(username) \/ py_bool(token)

\* The test `self.username and self.token`.
has_identity == py_bool(username) /\ py_bool(token)

session_open_request ==
    Request(_urljoin(_base_url, "sessions/open/"), with_identity(_values))

session_open ==
    /\ called' = [name |-> "session_open"]
    /\ _submit(session_open_request.endpoint, session_open_request.values)
    /\ _values' = self_values_after(session_open_request.values)
    /\ client_unchanged

session_ping_request(idle) ==
    LET values1 == with_identity(_values)
        values2 == IF idle THEN dict_set(values1, "status", PyStr(<<"idle">>))
                   ELSE dict_set(values1, "status", PyStr(<<"active">>))
    IN Request(_urljoin(_base_url, "sessions/ping/"), values2)

session_ping ==
    \E idle \in BOOLEAN :
        /\ called' = [name |-> "session_ping", idle |-> idle]
        /\ _submit(session_ping_request(idle).endpoint,
                   session_ping_request(idle).values)
        /\ _values' = self_values_after(session_ping_request(idle).values)
        /\ client_unchanged

session_close_request ==
    Request(_urljoin(_base_url, "sessions/close/"), with_identity(_values))

session_close ==
    /\ called' = [name |-> "session_close"]
    /\ _submit(session_close_request.endpoint, session_close_request.values)
    /\ _values' = self_values_after(session_close_request.values)
    /\ client_unchanged

trophies_fetch_request(achieved, trophy_id) ==
    LET values1 == with_identity(_values)
        values2 == IF achieved
                   THEN dict_set(values1, "achieved", PyStr(<<"true">>))
                   ELSE values1
        values3 == IF py_bool(trophy_id)
                   THEN dict_set(values2, "trophy_id", trophy_id)
                   ELSE values2
    IN Request(_urljoin(_base_url, "trophies/"), values3)

trophies_fetch ==
    \E achieved \in BOOLEAN, trophy_id \in TrophyIds :
        /\ called' = [name |-> "trophies_fetch", achieved |-> achieved,
                      trophy_id |-> trophy_id]
        /\ _submit(trophies_fetch_request(achieved, trophy_id).endpoint,
                   trophies_fetch_request(achieved, trophy_id).values)
        /\ _values' = self_values_after(trophies_fetch_request(achieved, trophy_id).values)
        /\ client_unchanged

trophies_add_achieved_request(trophy_id) ==
    Request(_urljoin(_base_url, "trophies/add-achieved/"),
            dict_set(with_identity(_values), "trophy_id", trophy_id))

trophies_add_achieved ==
    \E trophy_id \in TrophyIds \ {None} :
        /\ called' = [name |-> "trophies_add_achieved", trophy_id |-> trophy_id]
        /\ _submit(trophies_add_achieved_request(trophy_id).endpoint,
                   trophies_add_achieved_request(trophy_id).values)
        /\ _values' = self_values_after(trophies_add_achieved_request(trophy_id).values)
        /\ client_unchanged

scores_fetch_request(table_id, limit) ==
    LET values1 == dict_set(_values, "limit", limit)
        values2 == IF py_bool(table_id)
                   THEN dict_set(values1, "table_id", table_id)
                   ELSE values1
    IN Request(_urljoin(_base_url, "scores/"), values2)

scores_fetch ==
    \E table_id \in TableIds, limit \in Limits :
        /\ called' = [name |-> "scores_fetch", table_id |-> table_id,
                      limit |-> limit]
        /\ _submit(scores_fetch_request(table_id, limit).endpoint,
                   scores_fetch_request(table_id, limit).values)
        /\ _values' = self_values_after(scores_fetch_request(table_id, limit).values)
        /\ client_unchanged

scores_add_request(sort, score, table_id) ==
    LET values1 == IF has_identity
                   THEN with_identity(_values)
                   ELSE dict_set(_values, "guest", PyStr(<<"Guest">>))
        values2 == dict_set(values1, "sort", sort)
        values3 == dict_set(values2, "score", py_or(score, sort))
        values4 == IF py_bool(table_id)
                   THEN dict_set(values3, "table_id", table_id)
                   ELSE values3
    IN Request(_urljoin(_base_url, "scores/add/"), values4)

scores_add ==
    \E sort \in Sorts, score \in Scores, table_id \in TableIds :
        /\ called' = [name |-> "scores_add", sort |-> sort, score |-> score,
                      table_id |-> table_id]
        /\ _submit(scores_add_request(sort, score, table_id).endpoint,
                   scores_add_request(sort, score, table_id).values)
        /\ _values' = self_values_after(scores_add_request(sort, score, table_id).values)
        /\ client_unchanged

\* A request without the base parameters.
scores_tables_request_without_base ==
    Request(_urljoin(_base_url, "scores/tables/"), <<>>)

\* scores_tables passes self._values itself, not a copy.
scores_tables_request ==
    Request(_urljoin(_base_url, "scores/tables/"), _values)

scores_tables ==
    /\ called' = [name |-> "scores_tables"]
    /\ _submit(scores_tables_request.endpoint, scores_tables_request.values)
    /\ UNCHANGED _values
    /\ client_unchanged

\* The same lines without `and not public`.
data_store_identity_ignoring_public(values, public) ==
    IF has_identity THEN with_identity(values) ELSE values

\* The lines every data_store_* builder ends with: the identity goes in when
\* both fields are true and public is not.
data_store_identity(values, public) ==
    IF has_identity /\ ~public THEN with_identity(values) ELSE values

data_store_fetch_request(key, public) ==
    Request(_urljoin(_base_url, "data-store/"),
            data_store_identity(dict_set(_values, "key", key), public))

data_store_fetch ==
    \E key \in Keys, public \in BOOLEAN :
        /\ called' = [name |-> "data_store_fetch", key |-> key, public |-> public]
        /\ _submit(data_store_fetch_request(key, public).endpoint,
                   data_store_fetch_request(key, public).values)
        /\ _values' = self_values_after(data_store_fetch_request(key, public).values)
        /\ client_unchanged

data_store_set_request(key, data, public) ==
    LET values1 == dict_set(_values, "key", key)
        values2 == dict_set(values1, "data", data)
    IN Request(_urljoin(_base_url, "data-store/set/"),
               data_store_identity(values2, public))

data_store_set ==
    \E key \in Keys, data \in Datas, public \in BOOLEAN :
        /\ called' = [name |-> "data_store_set", key |-> key, data |-> data,
                      public |-> public]
        /\ _submit(data_store_set_request(key, data, public).endpoint,
                   data_store_set_request(key, data, public).values)
        /\ _values' = self_values_after(data_store_set_request(key, data, public).values)
        /\ client_unchanged

\* No assert (python -O strips it).
operation_accepted_any(operation) == TRUE

\* The assert data_store_update starts with.
operation_accepted(operation) == operation \in Operations

data_store_update_request(key, operation, value, public) ==
    LET values1 == dict_set(_values, "key", key)
        values2 == dict_set(values1, "operation", PyStr(<<operation>>))
        values3 == dict_set(values2, "value", value)
    IN Request(_urljoin(_base_url, "data-store/update/"),
               data_store_identity(values3, public))

data_store_update ==
    \E key \in Keys, operation \in CalledOperations, value \in UpdateValues,
       public \in BOOLEAN :
        /\ called' = [name |-> "data_store_update", key |-> key,
                      operation |-> operation, value |-> value,
                      public |-> public]
        /\ IF operation_accepted(operation)
           THEN /\ _submit(
                    data_store_update_request(key, operation, value, public).endpoint,
                    data_store_update_request(key, operation, value, public).values)
                /\ _values' = self_values_after(
                    data_store_update_request(key, operation, value, public).values)
           ELSE /\ raised' = "AssertionError"
                /\ UNCHANGED <<cache, futures, work_queue, executing, _values>>
        /\ client_unchanged

data_store_remove_request(key, public) ==
    Request(_urljoin(_base_url, "data-store/remove/"),
            data_store_identity(dict_set(_values, "key", key), public))

data_store_remove ==
    \E key \in Keys, public \in BOOLEAN :
        /\ called' = [name |-> "data_store_remove", key |-> key, public |-> public]
        /\ _submit(data_store_remove_request(key, public).endpoint,
                   data_store_remove_request(key, public).values)
        /\ _values' = self_values_after(data_store_remove_request(key, public).values)
        /\ client_unchanged

data_store_get_keys_request(public) ==
    Request(_urljoin(_base_url, "data-store/get-keys/"),
            data_store_identity(_values, public))

data_store_get_keys ==
    \E public \in BOOLEAN :
        /\ called' = [name |-> "data_store_get_keys", public |-> public]
        /\ _submit(data_store_get_keys_request(public).endpoint,
                   data_store_get_keys_request(public).values)
        /\ _values' = self_values_after(data_store_get_keys_request(public).values)
        /\ client_unchanged

(***************************************************************************)
(* The caller switches the player: api.username = ..., api.token = ...     *)
(***************************************************************************)
set_username ==
    \E u \in Usernames :
        /\ u # username
        /\ username' = u
        /\ UNCHANGED <<_game_id, _private_key, token, _values, cache, futures,
                       work_queue, executing, called, raised>>

set_token ==
    \E t \in Tokens :
        /\ t # token
        /\ token' = t
        /\ UNCHANGED <<_game_id, _private_key, username, _values, cache, futures,
                       work_queue, executing, called, raised>>

(***************************************************************************)
(* Direct calls of the signer, api._encode_signed_url(url), by this client *)
(* and by a second GameJoltAPI object of the same process.  lru_cache      *)
(* wraps the function in the class body, so both share the one cache.      *)
(***************************************************************************)
\* The second client object.
Other == "api2"

Clients == {Self, Other}

\* self._private_key of each client; the second client's key is another one.
private_key_of(self) == IF self = Self THEN _private_key ELSE <<"0ther">>

\* The urls signed directly: an endpoint with no query string, and the url
\* _submit makes of the same endpoint and the base parameters.
SignedDirectly ==
    {<<_urljoin(_base_url, "scores/tables/")>>,
     submit_url(_urljoin(_base_url, "scores/tables/"), _values)}

\* self._encode_signed_url(url), called directly; `returned` is its value.
encode_signed_url_call ==
    \E self \in Clients, url \in SignedDirectly :
        LET signed == _encode_signed_url(cache, self, private_key_of(self), url)
        IN /\ called' = [name |-> "_encode_signed_url", self |-> self,
                         url |-> url,
                         returned |-> IF signed.out.raised = ""
                                      THEN signed.out.value ELSE <<>>]
           /\ cache' = signed.cache
           /\ raised' = signed.out.raised
           /\ UNCHANGED <<futures, work_queue, executing, _values>>
           /\ client_unchanged

(***************************************************************************)
(* The network, as _get_response sees it: what urlopen and read() give.    *)
(***************************************************************************)
\* Response bodies: text that is not JSON, and JSON documents by their value.
BodyNotJson == [json |-> FALSE, value |-> None]

BodyNoResponse ==
    [json |-> TRUE, value |-> PyDict(<<<<"message", PyStr(<<"hello">>)>>>>)]

BodyList == [json |-> TRUE, value |-> PyList(<<>>)]

BodySuccess ==
    [json |-> TRUE,
     value |-> PyDict(<<<<"response",
                          PyDict(<<<<"success", PyStr(<<"true">>)>>>>)>>>>)]

BodyFailure ==
    [json |-> TRUE,
     value |-> PyDict(<<<<"response",
                          PyDict(<<<<"success", PyStr(<<"false">>)>>,
                                   <<"message", PyStr(<<"denied">>)>>>>)>>>>)]

\* {"response": null}
BodyResponseNull ==
    [json |-> TRUE, value |-> PyDict(<<<<"response", None>>>>)]

Bodies ==
    {BodyNotJson, BodyNoResponse, BodyList, BodySuccess, BodyFailure,
     BodyResponseNull}

\* What one GET may come to: no connection, an error status, or a body.
NetworkOutcomes ==
    {[error |-> e, body |-> BodyNotJson] : e \in {"URLError", "HTTPError"}}
    \cup {[error |-> "", body |-> b] : b \in Bodies}

\* urlopen(signed_url).read()
urlopen_read(signed_url, outcome) ==
    CASE outcome.error = "URLError" ->
             Raise("URLError", "<urlopen error [Errno 111] Connection refused>")
      [] outcome.error = "HTTPError" ->
             Raise("HTTPError", "HTTP Error 500: Internal Server Error")
      [] OTHER -> Return(outcome.body)

\* json.loads(body)
json_loads(body) ==
    IF body.json THEN Return(body.value)
    ELSE Raise("JSONDecodeError", "Expecting value: line 1 column 1 (char 0)")

\* v[k] for a str k
py_getitem(v, k) ==
    CASE v.t = "dict" ->
             IF dict_has(v.d, k) THEN Return(dict_get(v.d, k))
             ELSE Raise("KeyError", "'" \o k \o "'")
      [] v.t = "list" ->
             Raise("TypeError", "list indices must be integers or slices, not str")
      [] OTHER -> Raise("TypeError", "object is not subscriptable")

\* The classes `except Exception` catches.
Exceptions == {"URLError", "HTTPError", "JSONDecodeError", "KeyError",
               "TypeError", "UnicodeEncodeError", "AssertionError"}

\* A handler that catches KeyError alone.
except_KeyError(type) == type = "KeyError"

except_Exception(type) == type \in Exceptions

\* The try block of _get_response.
get_response_try(signed_url, outcome) ==
    LET http_response == urlopen_read(signed_url, outcome)
    IN IF http_response.raised # "" THEN http_response
       ELSE LET loaded == json_loads(http_response.value)
            IN IF loaded.raised # "" THEN loaded
               ELSE py_getitem(loaded.value, "response")

\* GameJoltAPI._get_response(signed_url), when the network comes to `outcome`.
_get_response(signed_url, outcome) ==
    LET tried == get_response_try(signed_url, outcome)
    IN IF tried.raised # "" /\ except_Exception(tried.raised)
       THEN Return(PyDict(<<<<"success", PyStr(<<"false">>)>>,
                            <<"error", PyStr(<<tried.value>>)>>>>))
       ELSE tried

(***************************************************************************)
(* The executor's worker processes.                                        *)
(***************************************************************************)
\* A worker that takes the newest work item.
next_work_index_newest(queue) == Len(queue)

\* The position in the queue of the work item a free worker takes: the
\* executor hands work items out in the order they were submitted.
next_work_index(queue) == 1

\* A task that signs the session_open url again when it starts.
task_signed_when_taken(item) ==
    [item EXCEPT !.signed_url =
        encode_signed_url_body(_private_key,
            submit_url(session_open_request.endpoint,
                       session_open_request.values)).value]

\* The task a work item becomes: _get_response with the signed_url that was
\* given to submit.
task(item) == item

\* A free worker takes a work item and calls _get_response, which opens the
\* url and blocks on the network.
worker_take ==
    /\ Cardinality(executing) < max_workers
    /\ work_queue # <<>>
    /\ LET i == next_work_index(work_queue)
           item == work_queue[i]
       IN /\ work_queue' = SubSeq(work_queue, 1, i - 1)
                             \o SubSeq(work_queue, i + 1, Len(work_queue))
          /\ executing' = executing \cup {task(item)}
          /\ futures' = [futures EXCEPT ![item.id].state = "RUNNING",
                                        ![item.id].gets = @ + 1]
    /\ UNCHANGED <<_game_id, _private_key, username, token, _values, cache,
                   called, raised>>

\* A worker that tries a call again when the transport failed: the work item
\* goes back to the front of the queue and the Future stays unresolved.
worker_return_retrying ==
    \E item \in executing, outcome \in NetworkOutcomes :
        LET out == _get_response(item.signed_url, outcome)
        IN /\ IF outcome.error # ""
              THEN /\ futures' = [futures EXCEPT ![item.id].state = "PENDING"]
                   /\ work_queue' = <<item>> \o work_queue
              ELSE /\ futures' = [futures EXCEPT ![item.id] =
                                     [state |-> "FINISHED",
                                      result |-> IF out.raised = "" THEN out.value
                                                 ELSE None,
                                      exception |-> out.raised,
                                      gets |-> @.gets,
                                      outcome |-> outcome]]
                   /\ UNCHANGED work_queue
           /\ executing' = executing \ {item}
           /\ UNCHANGED <<_game_id, _private_key, username, token, _values,
                          cache, called, raised>>

\* The network answers, _get_response returns and the Future is resolved
\* with its result, or with the exception that left it.
worker_return ==
    \E item \in executing, outcome \in NetworkOutcomes :
        LET out == _get_response(item.signed_url, outcome)
        IN /\ futures' = [futures EXCEPT ![item.id] =
                             [state |-> "FINISHED",
                              result |-> IF out.raised = "" THEN out.value ELSE None,
                              exception |-> out.raised,
                              gets |-> @.gets,
                              outcome |-> outcome]]
           /\ executing' = executing \ {item}
           /\ UNCHANGED <<_game_id, _private_key, username, token, _values,
                          cache, work_queue, called, raised>>

(***************************************************************************)
(* Construction, and the specifications.                                   *)
(***************************************************************************)
\* GameJoltAPI(game_id, private_key, username, token)
Init ==
    /\ _game_id \in GameIds
    /\ _private_key \in PrivateKeys
    /\ username \in Usernames
    /\ token \in Tokens
    /\ _values = <<<<"format", PyStr(<<"json">>)>>, <<"game_id", _game_id>>>>
    /\ cache = <<>>
    /\ futures = <<>>
    /\ work_queue = <<>>
    /\ executing = {}
    /\ called = [name |-> ""]
    /\ raised = ""

\* A client that opens sessions and lists the score tables, switching the
\* player as it goes, with at most MaxCalls calls reaching the executor.
Next ==
    \/ Len(futures) < MaxCalls /\ session_open
    \/ Len(futures) < MaxCalls /\ scores_tables
    \/ set_username
    \/ set_token
    \/ worker_take
    \/ worker_return

Spec == Init /\ [][Next]_vars

\* The same client when every GET comes back and the worker gets to run.
FairSpec == Spec /\ WF_vars(worker_take) /\ WF_vars(worker_return)

\* A client that may call every builder, with at most MaxApiCalls calls
\* reaching the executor.
ApiNext ==
    \/ Len(futures) < MaxApiCalls /\ session_open
    \/ Len(futures) < MaxApiCalls /\ session_ping
    \/ Len(futures) < MaxApiCalls /\ session_close
    \/ Len(futures) < MaxApiCalls /\ trophies_fetch
    \/ Len(futures) < MaxApiCalls /\ trophies_add_achieved
    \/ Len(futures) < MaxApiCalls /\ scores_fetch
    \/ Len(futures) < MaxApiCalls /\ scores_add
    \/ Len(futures) < MaxApiCalls /\ scores_tables
    \/ Len(futures) < MaxApiCalls /\ data_store_fetch
    \/ Len(futures) < MaxApiCalls /\ data_store_set
    \/ Len(futures) < MaxApiCalls /\ data_store_update
    \/ Len(futures) < MaxApiCalls /\ data_store_remove
    \/ Len(futures) < MaxApiCalls /\ data_store_get_keys
    \/ set_username
    \/ set_token
    \/ worker_take
    \/ worker_return

ApiSpec == Init /\ [][ApiNext]_vars

\* Two clients that call the signer directly, while the first also lists the
\* score tables, with at most MaxApiCalls calls reaching the executor.
SignNext ==
    \/ encode_signed_url_call
    \/ Len(futures) < MaxApiCalls /\ scores_tables
    \/ worker_take
    \/ worker_return

SignSpec == Init /\ [][SignNext]_vars

(***************************************************************************)
(* Properties.                                                             *)
(***************************************************************************)
\* The work ids of the tasks inside _get_response.
ExecutingIds == {item.id : item \in executing}

\* Whether a network answer is one of the failures _get_response handles: no
\* connection, an error status, a body that is not JSON, or JSON without a
\* "response" field.
IsFailureOutcome(outcome) ==
    \/ outcome.error \in {"URLError", "HTTPError"}
    \/ ~outcome.body.json
    \/ outcome.body.value.t # "dict"
    \/ ~dict_has(outcome.body.value.d, "response")

\* Whether a result is the failure dict: success 'false' and an error message.
IsFailureResult(result) ==
    /\ result.t = "dict"
    /\ dict_has(result.d, "success")
    /\ dict_get(result.d, "success") = PyStr(<<"false">>)
    /\ dict_has(result.d, "error")
    /\ dict_get(result.d, "error").t = "str"
    /\ dict_get(result.d, "error").s # <<>>

\* C1: tasks run one at a time and in submission order: at most one task is
\* inside _get_response, the tasks there are the RUNNING futures, and a
\* future that has started has every earlier future finished.
C1_SerialInSubmissionOrder ==
    /\ Cardinality(executing) <= 1
    /\ ExecutingIds = {i \in 1..Len(futures) : futures[i].state = "RUNNING"}
    /\ \A a, b \in 1..Len(futures) :
           a < b /\ futures[b].state # "PENDING" => futures[a].state = "FINISHED"

\* C1 witness: the first call has finished and the second is running.
C1_Witness ==
    /\ Len(futures) >= 2
    /\ futures[1].state = "FINISHED"
    /\ futures[2].state = "RUNNING"

\* C2: no exception reaches the caller through a Future: a finished future
\* holds no exception, and when the network answered with a failure its
\* result is the failure dict (success 'false', an error message).
C2_NoExceptionInFuture ==
    \A i \in 1..Len(futures) :
        /\ futures[i].exception = ""
        /\ futures[i].state = "FINISHED" /\ IsFailureOutcome(futures[i].outcome)
               => IsFailureResult(futures[i].result)

\* C2 witness: one call met a transport error and another a body that is not
\* JSON, and both futures finished.
C2_Witness ==
    /\ Len(futures) >= 2
    /\ futures[1].state = "FINISHED" /\ futures[1].outcome.error = "URLError"
    /\ futures[2].state = "FINISHED" /\ futures[2].outcome = [error |-> "", body |-> BodyNotJson]

\* C3: under FairSpec every future finishes, whatever is submitted after it;
\* once finished it keeps its one result; and no future is ever removed.
C3_EveryFutureResolvesOnce ==
    /\ \A i \in 1..MaxCalls :
           (Len(futures) >= i) ~> (Len(futures) >= i /\ futures[i].state = "FINISHED")
    /\ [][\A i \in 1..Len(futures) :
              /\ Len(futures') >= Len(futures)
              /\ futures[i].state = "FINISHED" => futures'[i] = futures[i]]_vars

\* C3 witness: two calls were submitted and both futures are finished.
C3_Witness ==
    /\ Len(futures) >= 2
    /\ \A i \in 1..Len(futures) : futures[i].state = "FINISHED"

(***************************************************************************)
(* Reading a url back: its query parameters.                               *)
(***************************************************************************)
\* The positions where parameter `name` starts in a url.
UrlParamAt(url, name) ==
    {i \in 2..(Len(url) - 1) :
        url[i] = name /\ url[i - 1] \in {"?", "&"} /\ url[i + 1] = "="}

UrlHasParam(url, name) == UrlParamAt(url, name) # {}

\* The (quoted) value of parameter `name`, as text.
UrlParamValue(url, name) ==
    LET i == CHOOSE j \in UrlParamAt(url, name) : TRUE
    IN IF i + 2 <= Len(url) /\ url[i + 2] # "&" THEN <<url[i + 2]>> ELSE <<>>

\* The work items not yet finished: queued, or inside _get_response.
Items == executing \cup {work_queue[i] : i \in 1..Len(work_queue)}

\* A step in which a builder returned a Future.
FutureReturned == Len(futures') = Len(futures) + 1

\* The signed url of the work item that step queued.
SubmittedUrl == work_queue'[Len(work_queue')].signed_url

\* The request the builder named in `call` assembles from the client's fields.
RequestOf(call) ==
    CASE call.name = "session_open" -> session_open_request
      [] call.name = "session_ping" -> session_ping_request(call.idle)
      [] call.name = "session_close" -> session_close_request
      [] call.name = "trophies_fetch" ->
             trophies_fetch_request(call.achieved, call.trophy_id)
      [] call.name = "trophies_add_achieved" ->
             trophies_add_achieved_request(call.trophy_id)
      [] call.name = "scores_fetch" ->
             scores_fetch_request(call.table_id, call.limit)
      [] call.name = "scores_add" ->
             scores_add_request(call.sort, call.score, call.table_id)
      [] call.name = "scores_tables" -> scores_tables_request
      [] call.name = "data_store_fetch" ->
             data_store_fetch_request(call.key, call.public)
      [] call.name = "data_store_set" ->
             data_store_set_request(call.key, call.data, call.public)
      [] call.name = "data_store_update" ->
             data_store_update_request(call.key, call.operation, call.value,
                                       call.public)
      [] call.name = "data_store_remove" ->
             data_store_remove_request(call.key, call.public)
      [] call.name = "data_store_get_keys" ->
             data_store_get_keys_request(call.public)

\* The unsigned url of the request of `call`.
UnsignedUrlOf(call) == submit_url(RequestOf(call).endpoint, RequestOf(call).values)

\* A step that is a call of some builder.
BuilderCall ==
    \/ session_open \/ session_ping \/ session_close
    \/ trophies_fetch \/ trophies_add_achieved
    \/ scores_fetch \/ scores_add \/ scores_tables
    \/ data_store_fetch \/ data_store_set \/ data_store_update
    \/ data_store_remove \/ data_store_get_keys

\* What signing url u without a cache gives: u, then the signature parameter
\* holding the hex SHA-1 of u followed by the private key.
UncachedSign(u) ==
    u \o <<"&", "signature", "=", sha1_hexdigest(Flatten(u \o _private_key))>>

HasNonAscii(text) == \E i \in 1..Len(text) : text[i] \in NonAscii

\* C4: the memoizing signer returns what an uncached signer returns: the url
\* submitted by every call, after any earlier calls, is the call's unsigned
\* url u followed by the signature of u and the private key (so equal u give
\* equal signed urls), and so is every value the cache holds for its key.
C4_MemoizedSignerEqualsUncached ==
    /\ [][FutureReturned => SubmittedUrl = UncachedSign(UnsignedUrlOf(called'))]_vars
    /\ [](\A i \in 1..Len(cache) : cache[i].value = UncachedSign(cache[i].key.url))

\* C4 witness: the same url was signed twice (a miss, then a hit) and both
\* calls are queued with the same signed url.
C4_Witness ==
    /\ Len(work_queue) = 2
    /\ work_queue[1].signed_url = work_queue[2].signed_url
    /\ Len(cache) = 1

\* A step that added a PENDING future and the work item for `signed_url` at
\* the back of the queue and touched nothing that was running or queued.
AcceptedAtOnce(signed_url) ==
    /\ executing' = executing
    /\ futures' = Append(futures, NewFuture)
    /\ work_queue' = Append(work_queue,
                            [id |-> Len(futures) + 1, signed_url |-> signed_url])

\* C5: submit never waits for the worker.  In every state, whatever is
\* running or queued, the executor's submit can take a signed url at once;
\* and every builder call that does not raise returns its Future in the very
\* step of the call, with its task queued last and no task started or
\* finished.
C5_SubmitNeverWaits ==
    /\ [](ENABLED (executor_submit(<<"signed url">>)
                     /\ AcceptedAtOnce(<<"signed url">>)))
    /\ [][BuilderCall /\ raised' = "" =>
             AcceptedAtOnce(UncachedSign(UnsignedUrlOf(called')))]_vars

\* C5 witness: a call was accepted while a task was running: the first task
\* is inside _get_response and the second is queued behind it.
C5_Witness ==
    /\ Len(futures) = 2
    /\ futures[1].state = "RUNNING"
    /\ futures[2].state = "PENDING"
    /\ Len(work_queue) = 1

\* C6: a request carries the identity the client held when the builder was
\* called: session_open submits a url whose username and user_token are the
\* fields' values at the call, and no later step changes the url of a task
\* that is queued or running.
C6_IdentityAtSubmission ==
    /\ [][called'.name = "session_open" /\ FutureReturned =>
             /\ UrlHasParam(SubmittedUrl, "username")
             /\ UrlParamValue(SubmittedUrl, "username") = quote_plus(py_str(username))
             /\ UrlHasParam(SubmittedUrl, "user_token")
             /\ UrlParamValue(SubmittedUrl, "user_token") = quote_plus(py_str(token))]_vars
    /\ [][\A a \in Items : \A b \in Items' :
              a.id = b.id => b.signed_url = a.signed_url]_vars

\* C6 witness: the username was switched between two session_open calls:
\* two unfinished tasks carry different usernames, and the older one, now
\* running, still carries the one the client no longer holds.
C6_Witness ==
    /\ called.name = "session_open"
    /\ \E a \in executing : \E b \in Items :
          /\ a.id < b.id
          /\ UrlHasParam(a.signed_url, "username")
          /\ UrlHasParam(b.signed_url, "username")
          /\ UrlParamValue(a.signed_url, "username") # quote_plus(py_str(username))
          /\ UrlParamValue(b.signed_url, "username") = quote_plus(py_str(username))

\* C7: data_store_update with an operation outside the accepted six raises
\* AssertionError to the caller and does nothing else: no future, no work
\* item, no GET, the cache as it was.
C7_InvalidOperationFailsFast ==
    [][data_store_update /\ called'.operation \notin Operations =>
          /\ raised' = "AssertionError"
          /\ UNCHANGED <<futures, work_queue, executing, cache>>]_vars

\* C7 witness: data_store_update was called with operation "invalid" and
\* raised.
C7_Witness ==
    /\ called.name = "data_store_update"
    /\ called.operation = "invalid"
    /\ raised = "AssertionError"

\* C8: a builder call whose signature input (unsigned url, then private key)
\* holds a non-ASCII character raises UnicodeEncodeError to the caller and
\* does nothing else (no future, no work item, no GET, nothing cached), in
\* every state, so also when the same call is made again.  (BuilderCall
\* implies the conjuncts before it, which are there to be evaluated first.)
C8_NonAsciiSignatureInputFailsFast ==
    [][/\ called'.name \notin {"", "_encode_signed_url"}
       /\ UNCHANGED <<username, token, executing>>
       /\ raised' # "AssertionError"
       /\ \E input \in {UnsignedUrlOf(called') \o _private_key} : HasNonAscii(input)
       /\ BuilderCall
       =>
          /\ raised' = "UnicodeEncodeError"
          /\ UNCHANGED <<futures, work_queue, executing, cache>>]_vars

\* C8 witness: scores_add was called by a client whose private key holds a
\* non-ASCII character, and raised.
C8_Witness ==
    /\ called.name = "scores_add"
    /\ HasNonAscii(_private_key)
    /\ raised = "UnicodeEncodeError"

\* C9: a scores_add request has exactly one of two forms: username and
\* user_token (the fields' values) without guest when both fields are set,
\* guest=Guest without username and user_token otherwise.
C9_ScoresAddIdentityOrGuest ==
    [][called'.name = "scores_add" /\ FutureReturned =>
          IF py_bool(username) /\ py_bool(token)
          THEN /\ UrlHasParam(SubmittedUrl, "username")
               /\ UrlParamValue(SubmittedUrl, "username") = quote_plus(py_str(username))
               /\ UrlHasParam(SubmittedUrl, "user_token")
               /\ UrlParamValue(SubmittedUrl, "user_token") = quote_plus(py_str(token))
               /\ ~UrlHasParam(SubmittedUrl, "guest")
          ELSE /\ UrlHasParam(SubmittedUrl, "guest")
               /\ UrlParamValue(SubmittedUrl, "guest") = <<"Guest">>
               /\ ~UrlHasParam(SubmittedUrl, "username")
               /\ ~UrlHasParam(SubmittedUrl, "user_token")]_vars

\* C9 witness: scores_add was called with a username but no token, and its
\* request is the guest form.
C9_Witness ==
    /\ called.name = "scores_add"
    /\ py_bool(username) /\ ~py_bool(token)
    /\ \E item \in Items : UrlHasParam(item.signed_url, "guest")

\* C10: a data_store_* call with public=True submits a url without username
\* and user_token, whatever the client's fields hold.
C10_PublicOmitsIdentity ==
    [][/\ called'.name \in {"data_store_fetch", "data_store_set",
                            "data_store_update", "data_store_remove",
                            "data_store_get_keys"}
       /\ FutureReturned
       /\ called'.public
       => /\ ~UrlHasParam(SubmittedUrl, "username")
          /\ ~UrlHasParam(SubmittedUrl, "user_token")]_vars

\* C10 witness: a client holding both a username and a token called
\* data_store_update with public=True, and the request is queued.
C10_Witness ==
    /\ called.name = "data_store_update"
    /\ called.public
    /\ py_bool(username) /\ py_bool(token)
    /\ raised = ""
    /\ \E item \in Items : ~UrlHasParam(item.signed_url, "username")

\* C11: every url handed to the worker holds format=json, the client's game
\* identifier (url-quoted) and exactly one signature parameter, which is the
\* last parameter of the url; each of the three occurs once.
C11_BaseParametersAndOneSignature ==
    \A item \in Items :
        LET url == item.signed_url
        IN /\ Cardinality(UrlParamAt(url, "format")) = 1
           /\ UrlParamValue(url, "format") = <<"json">>
           /\ Cardinality(UrlParamAt(url, "game_id")) = 1
           /\ UrlParamValue(url, "game_id") = quote_plus(py_str(_game_id))
           /\ UrlParamAt(url, "signature") = {Len(url) - 2}
           /\ url[Len(url)] = sha1_hexdigest(
                  Flatten(SubSeq(url, 1, Len(url) - 4) \o _private_key))

\* C11 witness: a data_store_update request with the player's identity is
\* queued or running.
C11_Witness ==
    /\ called.name = "data_store_update"
    /\ raised = ""
    /\ \E item \in Items :
          /\ UrlHasParam(item.signed_url, "operation")
          /\ UrlHasParam(item.signed_url, "user_token")

\* The unsigned url a signed url was made from.
UnsignedPart(signed_url) == SubSeq(signed_url, 1, Len(signed_url) - 4)

IsTaggedResult(result) ==
    /\ result.t = "dict"
    /\ dict_has(result.d, "success")
    /\ dict_get(result.d, "success") \in {PyStr(<<"true">>), PyStr(<<"false">>)}

\* C13 as claimed: every value a future resolves to is a tagged result, for
\* every response body; a result tagged 'false' by _get_response carries an
\* error message.
C13_EveryResultIsTagged ==
    \A i \in 1..Len(futures) :
        futures[i].state = "FINISHED" =>
            /\ futures[i].exception = ""
            /\ IsTaggedResult(futures[i].result)
            /\ IsFailureOutcome(futures[i].outcome)
                   => IsFailureResult(futures[i].result)

\* The builders C14 names that set the identity without a test, and the
\* data_store_* builders.
UnconditionalIdentityBuilders ==
    {"session_open", "session_ping", "session_close", "trophies_fetch",
     "trophies_add_achieved"}

DataStoreBuilders ==
    {"data_store_fetch", "data_store_set", "data_store_update",
     "data_store_remove", "data_store_get_keys"}

\* The url carries the fields' values as username and user_token.
SendsIdentity(url) ==
    /\ UrlHasParam(url, "username")
    /\ UrlParamValue(url, "username") = quote_plus(py_str(username))
    /\ UrlHasParam(url, "user_token")
    /\ UrlParamValue(url, "user_token") = quote_plus(py_str(token))

SendsNoIdentity(url) ==
    /\ ~UrlHasParam(url, "username")
    /\ ~UrlHasParam(url, "user_token")

\* C14 as claimed: in every builder that has an identity rule, a request
\* holds username or user_token only when both fields are set.
C14_IdentityOnlyWhenBothSet ==
    [][/\ called'.name \in UnconditionalIdentityBuilders
                              \cup DataStoreBuilders \cup {"scores_add"}
       /\ FutureReturned
       /\ ~(py_bool(username) /\ py_bool(token))
       => SendsNoIdentity(SubmittedUrl)]_vars

\* C14 as amended: scores_add and the data_store_* builders send username
\* and user_token only when both fields are set (data_store_*: and public is
\* false) and send neither otherwise; the session and trophies builders
\* always send both, as str() of the fields; the other builders send none.
C14_IdentityRulePerBuilder ==
    [][FutureReturned =>
          CASE called'.name \in UnconditionalIdentityBuilders ->
                   SendsIdentity(SubmittedUrl)
            [] called'.name = "scores_add" ->
                   IF py_bool(username) /\ py_bool(token)
                   THEN SendsIdentity(SubmittedUrl)
                   ELSE SendsNoIdentity(SubmittedUrl)
            [] called'.name \in DataStoreBuilders ->
                   IF py_bool(username) /\ py_bool(token) /\ ~called'.public
                   THEN SendsIdentity(SubmittedUrl)
                   ELSE SendsNoIdentity(SubmittedUrl)
            [] OTHER -> SendsNoIdentity(SubmittedUrl)]_vars

\* C14 witness: trophies_fetch was called by a client with a token but no
\* username, and its request says username=None.
C14_Witness ==
    /\ called.name = "trophies_fetch"
    /\ username = None /\ py_bool(token)
    /\ \E item \in Items :
          /\ UrlHasParam(item.signed_url, "username")
          /\ UrlParamValue(item.signed_url, "username") = <<"None">>
          /\ UrlParamValue(item.signed_url, "user_token") = quote_plus(py_str(token))

\* A step that is a direct call of the signer that returned.
SignerReturned == called'.name = "_encode_signed_url" /\ raised' = ""

\* The signature parameter of url u for a client: the hex SHA-1 of u followed
\* by the client's private key.
SignatureParameter(self, u) ==
    <<"signature", "=", sha1_hexdigest(Flatten(u \o private_key_of(self)))>>

\* C15 as claimed: the signer joins the signature parameter to the url with
\* '&' when the url has a query string and with '?' when it has none.
C15_SeparatorFitsInput ==
    [][SignerReturned =>
          called'.returned =
              called'.url
                \o <<IF has_query(called'.url) THEN "&" ELSE "?">>
                \o SignatureParameter(called'.self, called'.url)]_vars

\* C16: each submitted call makes exactly one GET: a future that has started
\* has made one urlopen call and a future still waiting none, also after a
\* failed GET; a finished future has no work item left, and no two work
\* items belong to one future.  So the GETs never outnumber the calls.
C16_OneGetPerCall ==
    /\ \A i \in 1..Len(futures) :
           /\ futures[i].gets = IF futures[i].state = "PENDING" THEN 0 ELSE 1
           /\ futures[i].state = "FINISHED" => \A item \in Items : item.id # i
    /\ \A a, b \in 1..Len(work_queue) :
           work_queue[a].id = work_queue[b].id => a = b
    /\ \A item \in executing :
           \A a \in 1..Len(work_queue) : work_queue[a].id # item.id

\* C16 witness: the GET of the first call failed with an error status, the
\* call finished after its one GET, and the worker went on to the second.
C16_Witness ==
    /\ Len(futures) = 2
    /\ futures[1].state = "FINISHED"
    /\ futures[1].outcome.error = "HTTPError"
    /\ futures[1].gets = 1
    /\ futures[2].state = "RUNNING"
    /\ futures[2].gets = 1

\* C17: nothing but the network's answer ends a running task.  A task leaves
\* the worker only in a step that resolves its future with what the network
\* answered; while it stays in the worker, every future submitted after it
\* is PENDING (not started, not resolved); and while a task is running the
\* executor's submit still takes a call at once.
C17_HungCallStallsLaterCalls ==
    /\ [][\A item \in executing :
              IF item \in executing'
              THEN \A i \in (item.id + 1)..Len(futures') :
                       futures'[i].state = "PENDING"
              ELSE /\ futures'[item.id].state = "FINISHED"
                   /\ futures'[item.id].outcome \in NetworkOutcomes]_vars
    /\ [](executing # {} =>
              ENABLED (executor_submit(<<"later url">>)
                         /\ AcceptedAtOnce(<<"later url">>)))

\* C17 witness: while the first call's GET has not returned, a second call
\* was submitted, and it waits in the queue, not started.
C17_Witness ==
    /\ \E item \in executing : item.id = 1 /\ futures[1].outcome = NoOutcome
    /\ Len(work_queue) = 1
    /\ work_queue[1].id = 2
    /\ futures[2].gets = 0

\* self._values as __init__ made it.
BaseValues == <<<<"format", PyStr(<<"json">>)>>, <<"game_id", _game_id>>>>

\* C18: no builder call changes the base mapping: self._values is always
\* {format: json, game_id: <game identifier>}; and a request is made of the
\* base parameters and the call's own: the url of scores_tables, which has
\* no parameters of its own, holds the base parameters alone, whatever the
\* calls before it put into their requests.
C18_BaseValuesNeverModified ==
    /\ [](_values = BaseValues)
    /\ [][FutureReturned /\ called'.name = "scores_tables" =>
             UnsignedPart(SubmittedUrl) =
                 <<_urljoin(_base_url, "scores/tables/"), "?",
                   "format", "=", "json", "&", "game_id", "=">>
                   \o quote_plus(py_str(_game_id))]_vars

\* C18 witness: session_open put the player's identity into its request,
\* scores_tables was called after it, and its request holds no identity.
C18_Witness ==
    /\ called.name = "scores_tables"
    /\ Len(work_queue) = 2
    /\ UrlHasParam(work_queue[1].signed_url, "username")
    /\ UrlHasParam(work_queue[1].signed_url, "user_token")
    /\ SendsNoIdentity(work_queue[2].signed_url)

\* C19: the shared cache never hands one client the other's signature: every
\* direct call of the signer that returns, by either client, after any calls
\* of the other for the same url, returns the url followed by the signature
\* made with the caller's own private key; and every cache entry holds the
\* signature made with the key of the client in its cache key.
C19_NoSignatureLeakBetweenClients ==
    /\ [][SignerReturned =>
             called'.returned =
                 called'.url \o <<"&">>
                   \o SignatureParameter(called'.self, called'.url)]_vars
    /\ [](\A i \in 1..Len(cache) :
              cache[i].value =
                  cache[i].key.url \o <<"&">>
                    \o SignatureParameter(cache[i].key.self, cache[i].key.url))

\* C19 witness: the first client's request for a url is queued or running,
\* signed with its key, and the second client has signed the same url and
\* got a different signed url.
C19_Witness ==
    /\ called.name = "_encode_signed_url"
    /\ called.self = Other
    /\ raised = ""
    /\ \E item \in Items :
          /\ UnsignedPart(item.signed_url) = called.url
          /\ item.signed_url # called.returned
          /\ item.signed_url =
                 called.url \o <<"&">> \o SignatureParameter(Self, called.url)

====
